---- MODULE Spec2Model ----
(***************************************************************************)
(* Model of the control core of pleasure-ai-robotics-core:                 *)
(*   - motion.Controller  (src/unnamed/part_002, lines 1-223)              *)
(*   - sensor.Hub         (src/pkg/sensor/hub.go)                          *)
(*   - core.System        (src/unnamed/part_002, lines 224-498)            *)
(*   - behavior.Analyzer  (src/pkg/behavior/analyzer.go)                   *)
(*   - safety.SafetyMonitor (src/unnamed/part_004, lines 1-101)            *)
(*                                                                         *)
(* Positions are integers in hundredths of a degree and speeds integers in *)
(* degrees per second, so that one 10 ms integration step (speed * 0.01)   *)
(* moves a motor by exactly `Speed` position units.                        *)
(***************************************************************************)
EXTENDS Integers, Sequences, FiniteSets, TLC

(***************************************************************************)
(* Bounds of the model                                                     *)
(***************************************************************************)
\* number of replay goroutines ExecutePattern may launch in one behaviour
MaxReplays == 1
\* number of AddSensorData calls in one behaviour
MaxIngest == 4
\* spare cells a newly allocated backing array may have beyond the need
MaxSlack == 1
\* number of zero readings the Hub's worker takes from the closed dataChan
MaxZeroReads == 2
\* number of AddMetrics calls in one behaviour
MaxMetrics == 3
\* number of analyzer ticks that compute a pattern in one behaviour
MaxTicks == 2
\* number of AddWarning calls in one behaviour
MaxWarnings == 22
\* number of periodic safety checks in one behaviour
MaxChecks == 5

(***************************************************************************)
(* Program constants                                                       *)
(***************************************************************************)
\* position units per degree (the 10 ms tick multiplies speed by 0.01)
PosScale == 100
\* Motor.MaxSpeed of the default motors
MaxSpeed == 180
\* Motor.MinPosition of the default motors
MinPosition == 0 * PosScale
\* Motor.MaxPosition of the default motors
MaxPosition == 180 * PosScale
\* capacity of controlChan
ControlChanCap == 100

\* capacity of Hub.dataChan
DataChanCap == 100
\* readings kept per category
BufferCap == 1000

\* metric units per 1.0: metrics and confidences are in hundredths
Unit == 100
\* Analyzer.threshold, 0.75
Threshold == 75
\* capacity of Analyzer.inputChan
InputChanCap == 100
\* samples kept in processPatterns' window
WindowCap == 60
\* patterns kept in the Analyzer's history
HistoryCap == 1000

\* the behaviour types
BehaviorNormal == "normal"
BehaviorAggressive == "aggressive"
BehaviorPassive == "passive"
BehaviorErratic == "erratic"
BehaviorTypes ==
  {BehaviorNormal, BehaviorAggressive, BehaviorPassive, BehaviorErratic}

\* the safety levels, in the order of their declaration
SafetyNormal == 0
SafetyWarning == 1
SafetyCritical == 2
SafetyEmergency == 3
\* warnings above which AddWarning sets the level to SafetyWarning
WarningCount == 10
\* warnings above which AddWarning sets the level to SafetyCritical
CriticalCount == 20

\* the sensor types
Categories == {"touch", "pressure", "motion", "temperature"}

\* the default motor roster of NewController
MotorIds == {"servo_1", "servo_2"}

\* error values returned by executeCommand / ExecutePattern
ErrNone == "nil"
ErrMotorNotFound == "motor not found"
ErrMotorDisabled == "motor is disabled"
ErrOutOfRange == "position out of range"
ErrPatternNotFound == "pattern not found"

(***************************************************************************)
(* Inputs: the commands and patterns callers submit                        *)
(***************************************************************************)
\* lands exactly on MaxPosition after one integration step, overshoots it
\* after two
CmdLand == [ID |-> "servo_1", Position |-> 179 * PosScale, Speed |-> 100]
\* negative target speed within the speed limit
CmdNeg == [ID |-> "servo_2", Position |-> 179 * PosScale, Speed |-> -100]
\* target speed above the speed limit; overshoots MaxPosition after two
\* integration steps
CmdFast == [ID |-> "servo_2", Position |-> 178 * PosScale, Speed |-> 250]
\* target position above MaxPosition
CmdHigh == [ID |-> "servo_1", Position |-> 180 * PosScale + 1, Speed |-> 50]
\* target position below MinPosition
CmdLow == [ID |-> "servo_2", Position |-> -1, Speed |-> 50]
\* motor id that is not in the roster
CmdGhost == [ID |-> "servo_9", Position |-> 90 * PosScale, Speed |-> 10]
\* the zero value of MotorCommand, received from a closed controlChan; no
\* replay sent it
ZeroCommand ==
  [ID |-> "", Position |-> 0, Speed |-> 0, Replay |-> 0, Index |-> 0]
\* the command a replay puts on controlChan, marked with the replay that
\* sent it and its index in the pattern
Tagged(cmd, r, i) ==
  [ID |-> cmd.ID, Position |-> cmd.Position, Speed |-> cmd.Speed,
   Replay |-> r, Index |-> i]

PatternNames == {"p"}
PatternPool ==
  { <<CmdLand, CmdHigh>>, <<CmdNeg, CmdGhost>>, <<CmdFast, CmdLow>> }

ReplayIds == 1..MaxReplays

\* the Hub may start with this many touch readings already processed
PreFill == BufferCap - 1
\* the i-th of those readings
PreValue(i) == 100 + i

\* the metrics samples callers submit, in hundredths
Sample(i, f, c) ==
  [Intensity |-> i, Frequency |-> f, Duration |-> Unit, Consistency |-> c]
\* high intensity and frequency, consistent
SampleAggressive == Sample(90, 90, 90)
\* low intensity and frequency, consistency below the threshold
SamplePassive == Sample(10, 10, 50)
\* intensity and frequency far apart
SampleErratic == Sample(90, 10, 80)
\* intensity and frequency exactly 0.8, consistency exactly the threshold
SampleEdge == Sample(80, 80, 75)
\* both above 0.8 and more than 0.5 apart
SampleOver == Sample(200, 90, 60)
\* both below 0.2 and more than 0.5 apart, consistency above 1.0
SampleUnder == Sample(-100, 10, 150)
\* exactly 0.5 apart, consistency below 0.0
SampleHalf == Sample(75, 25, -20)

SamplePool == {SampleAggressive, SamplePassive, SampleErratic, SampleEdge,
               SampleOver, SampleUnder, SampleHalf}

\* the samples submitted to an Analyzer whose history is almost full: one
\* above and one below the confidence threshold
HistoryPool == {SampleAggressive, SamplePassive}

\* the samples callers submit where every state carries a long window or
\* the Analyzer's lifecycle
WindowPool == {SampleAggressive, SamplePassive}

\* the zero value of PatternMetrics, received from a closed inputChan
ZeroSample ==
  [Intensity |-> 0, Frequency |-> 0, Duration |-> 0, Consistency |-> 0]

\* the worker's window may start with this many samples already received
PreWindow == WindowCap - 1
\* the i-th of them
PreSample(i) ==
  [Intensity |-> 50, Frequency |-> 50, Duration |-> i, Consistency |-> 50]

\* the warning texts callers submit
WarningPool == {"overheat"}

\* the Analyzer may start with this many patterns already in its history
PreHistory == HistoryCap - 1

\* the zero value of SensorData, received from a closed dataChan
ZeroReading == [Type |-> "", Value |-> 0]
\* the nil slice h.sensors yields for a key it does not hold
NilSlice == [arr |-> <<>>, off |-> 0, len |-> 0]

VARIABLES
  motors,       \* Controller.motors: id -> [Position, Speed, IsEnabled]
  running,      \* Controller.running
  patterns,     \* Controller.patterns: name -> sequence of commands
  controlChan,  \* buffered contents of Controller.controlChan
  chanClosed,   \* controlChan has been closed
  done,         \* Controller.done has been closed
  mu,           \* holder of Controller.mu across the worker's handler steps
  worker,       \* the processCommands goroutine: position and locals
  lastErr,      \* return value of the last executeCommand
  epResult,     \* return value of the last ExecutePattern
  replays,      \* the goroutines launched by ExecutePattern
  shut,         \* the caller of Controller.Shutdown: position and locals
  panicked,     \* a goroutine panicked: the process is gone
  sensors,      \* Hub.sensors: category -> slice [arr, off, len]
  dataChan,     \* buffered contents of Hub.dataChan
  processed,    \* per category, the values processData has appended, in order
  ingested,     \* number of AddSensorData calls made so far
  orch,         \* the System.analyzeBehavior goroutine: position and locals
  hubDone,      \* Hub.done has been closed
  dataClosed,   \* Hub.dataChan has been closed
  hubWorker,    \* the processData goroutine: "select" or "exited"
  hubShut,      \* the caller of Hub.Shutdown: position
  inputChan,    \* buffered contents of Analyzer.inputChan
  buffer,       \* processPatterns' local window of metrics
  behaviorPatterns, \* Analyzer.patterns: the pattern history
  currentState, \* Analyzer.currentState
  computed,     \* every pattern addPattern was given, in order
  ticks,        \* number of ticks that computed a pattern so far
  metricsSent,  \* number of AddMetrics calls made so far
  anDone,       \* Analyzer.done has been closed
  inputClosed,  \* Analyzer.inputChan has been closed
  anWorker,     \* the processPatterns goroutine: "select" or "exited"
  anShut,       \* the caller of Analyzer.Shutdown: position
  currentLevel, \* SafetyMonitor.currentLevel
  warnings,     \* SafetyMonitor.warnings
  lastCheck,    \* SafetyMonitor.lastCheck: the checks performed, up to MaxChecks
  monitor,      \* the runSafetyChecks goroutine: position
  isActive,     \* System.isActive
  cancelled,    \* System.ctx has been cancelled
  sysMu,        \* holder of System.mu
  sysShut       \* the caller of System.Shutdown: position

\* the Controller's own state
ctlState == <<motors, running, patterns, controlChan, chanClosed, done, mu,
              worker, lastErr, epResult, replays, shut>>

ctlVars == <<ctlState, panicked>>

\* the Hub's lifecycle: its two channels' closing, its worker, its Shutdown
hubLife == <<hubDone, dataClosed, hubWorker, hubShut>>

hubVars == <<sensors, dataChan, processed, ingested, orch, hubLife>>

\* the Analyzer's lifecycle: its two channels' closing, its worker, its
\* Shutdown
anLife == <<anDone, inputClosed, anWorker, anShut>>

anVars == <<inputChan, buffer, behaviorPatterns, currentState, computed, ticks,
            metricsSent, anLife>>

safVars == <<currentLevel, warnings, lastCheck, monitor>>

\* the System's own state
sysVars == <<isActive, cancelled, sysMu, sysShut>>

vars == <<ctlVars, hubVars, anVars, safVars, sysVars>>

Abs(x) == IF x < 0 THEN -x ELSE x

(***************************************************************************)
(* motion.Controller                                                       *)
(***************************************************************************)
IdleWorker ==
  [pc |-> "select", cmd |-> ZeroCommand, speed |-> 0, todo |-> {},
   motor |-> "", newPos |-> 0, zero |-> FALSE]

IdleOrch ==
  [pc |-> "idle",
   touch |-> [alias |-> "own", arr |-> <<>>, off |-> 0, len |-> 0],
   pressure |-> [alias |-> "own", arr |-> <<>>, off |-> 0, len |-> 0],
   motion |-> [alias |-> "own", arr |-> <<>>, off |-> 0, len |-> 0],
   all |-> [alias |-> "own", arr |-> <<>>, off |-> 0, len |-> 0],
   metrics |-> ZeroSample]

IdleReplay == [pc |-> "idle", cmds |-> <<>>, i |-> 1]
DoneReplay == [pc |-> "done", cmds |-> <<>>, i |-> 1]

NewController ==
  /\ motors = [m \in MotorIds |->
                 [Position |-> 0, Speed |-> 0, IsEnabled |-> TRUE]]
  /\ running = TRUE
  /\ patterns = <<>>
  /\ controlChan = <<>>
  /\ chanClosed = FALSE
  /\ done = FALSE
  /\ mu = "free"
  /\ worker = IdleWorker
  /\ lastErr = "none"
  /\ epResult = "none"
  /\ replays = [r \in ReplayIds |-> IdleReplay]
  /\ shut = [pc |-> "idle", todo |-> {}, motor |-> ""]
  /\ panicked = FALSE

\* Validate without the position check of lines 135-137
ValidateNoRange(cmd, ms) ==
  IF cmd.ID \notin DOMAIN ms THEN ErrMotorNotFound
  ELSE IF ~ms[cmd.ID].IsEnabled THEN ErrMotorDisabled
  ELSE ErrNone

\* Validate without the IsEnabled check of lines 130-132
ValidateNoEnabled(cmd, ms) ==
  IF cmd.ID \notin DOMAIN ms THEN ErrMotorNotFound
  ELSE IF cmd.Position < MinPosition \/ cmd.Position > MaxPosition
       THEN ErrOutOfRange
  ELSE ErrNone

\* executeCommand, lines 125-137: the validation of a command
Validate(cmd, ms) ==
  IF cmd.ID \notin DOMAIN ms THEN ErrMotorNotFound
  ELSE IF ~ms[cmd.ID].IsEnabled THEN ErrMotorDisabled
  ELSE IF cmd.Position < MinPosition \/ cmd.Position > MaxPosition
       THEN ErrOutOfRange
  ELSE ErrNone

\* ClampSpeed without the limit of lines 141-143
ClampSpeedNoLimit(target) == Abs(target)

\* executeCommand, lines 139-143: the speed that is stored
ClampSpeed(target) ==
  LET speed == Abs(target)
  IN IF speed > MaxSpeed THEN MaxSpeed ELSE speed

\* Integrate clamping the position without zeroing the speed
IntegrateKeepsSpeed(motor) ==
  LET newPos == motor.Position + (motor.Speed * PosScale) \div 100
  IN IF newPos < MinPosition
       THEN [Position |-> MinPosition, zero |-> FALSE]
     ELSE IF newPos > MaxPosition
       THEN [Position |-> MaxPosition, zero |-> FALSE]
     ELSE [Position |-> newPos, zero |-> FALSE]

\* updateMotorStates, lines 163-175: new position and speed of one motor
Integrate(motor) ==
  LET delta == (motor.Speed * PosScale) \div 100
      newPos == motor.Position + delta
  IN IF newPos < MinPosition
       THEN [Position |-> MinPosition, zero |-> TRUE]
     ELSE IF newPos > MaxPosition
       THEN [Position |-> MaxPosition, zero |-> TRUE]
     ELSE [Position |-> newPos, zero |-> FALSE]

\* AddPattern: store or overwrite by name, under the write lock
AddPattern(name, cmds) ==
  /\ ~panicked
  /\ mu = "free"
  /\ ~(name \in DOMAIN patterns /\ patterns[name] = cmds)
  /\ patterns' = [n \in DOMAIN patterns \cup {name} |->
                    IF n = name THEN cmds ELSE patterns[n]]
  /\ UNCHANGED <<motors, running, controlChan, chanClosed, done, mu, worker,
                 lastErr, epResult, replays, shut, panicked>>
  /\ UNCHANGED <<hubVars, anVars, safVars, sysVars>>

\* ExecutePattern launching a replay without looking at the lookup's result
ExecutePatternUnchecked(name) ==
  /\ ~panicked
  /\ mu = "free"
  /\ \E r \in ReplayIds :
       /\ replays[r].pc = "idle"
       /\ \A q \in ReplayIds : q < r => replays[q].pc # "idle"
       /\ replays' = [replays EXCEPT
                        ![r] = [pc |-> "check",
                                cmds |-> IF name \in DOMAIN patterns
                                           THEN patterns[name] ELSE <<>>,
                                i |-> 1]]
       /\ epResult' = ErrNone
  /\ UNCHANGED <<motors, running, patterns, controlChan, chanClosed, done, mu,
                 worker, lastErr, shut, panicked>>
  /\ UNCHANGED <<hubVars, anVars, safVars, sysVars>>

\* ExecutePattern: look the pattern up under the read lock, launch a replay
ExecutePattern(name) ==
  /\ ~panicked
  /\ mu = "free"
  /\ IF name \notin DOMAIN patterns
       THEN /\ epResult' = ErrPatternNotFound
            /\ UNCHANGED replays
       ELSE \E r \in ReplayIds :
              /\ replays[r].pc = "idle"
              /\ \A q \in ReplayIds : q < r => replays[q].pc # "idle"
              /\ replays' = [replays EXCEPT
                               ![r] = [pc |-> "check", cmds |-> patterns[name],
                                       i |-> 1]]
              /\ epResult' = ErrNone
  /\ UNCHANGED <<motors, running, patterns, controlChan, chanClosed, done, mu,
                 worker, lastErr, shut, panicked>>
  /\ UNCHANGED <<hubVars, anVars, safVars, sysVars>>

\* replay goroutine, lines 197-200: loop head and the unlocked read of running
ReplayCheck(r) ==
  /\ ~panicked
  /\ replays[r].pc = "check"
  /\ replays' = [replays EXCEPT ![r] =
                   IF replays[r].i > Len(replays[r].cmds) THEN DoneReplay
                   ELSE IF ~running THEN DoneReplay
                   ELSE [replays[r] EXCEPT !.pc = "send"]]
  /\ UNCHANGED <<motors, running, patterns, controlChan, chanClosed, done, mu,
                 worker, lastErr, epResult, shut, panicked>>
  /\ UNCHANGED <<hubVars, anVars, safVars, sysVars>>

\* ReplaySend walking the pattern from its last command to its first
ReplaySendBackwards(r) ==
  /\ ~panicked
  /\ replays[r].pc = "send"
  /\ ~chanClosed
  /\ Len(controlChan) < ControlChanCap
  /\ LET j == Len(replays[r].cmds) + 1 - replays[r].i
     IN controlChan' =
          Append(controlChan, Tagged(replays[r].cmds[j], r, j))
  /\ replays' = [replays EXCEPT ![r] =
         IF replays[r].i = Len(replays[r].cmds) THEN DoneReplay
         ELSE [replays[r] EXCEPT !.pc = "check", !.i = replays[r].i + 1]]
  /\ UNCHANGED <<motors, running, patterns, chanClosed, done, mu, worker,
                 lastErr, epResult, shut, panicked>>
  /\ UNCHANGED <<hubVars, anVars, safVars, sysVars>>

\* replay goroutine, lines 201-203: send on controlChan, then sleep; the
\* goroutine ends after the last command
ReplaySend(r) ==
  /\ ~panicked
  /\ replays[r].pc = "send"
  /\ IF chanClosed
       THEN /\ panicked' = TRUE
            /\ replays' = [replays EXCEPT ![r].pc = "panic"]
            /\ UNCHANGED controlChan
       ELSE /\ Len(controlChan) < ControlChanCap
            /\ controlChan' =
                 Append(controlChan,
                        Tagged(replays[r].cmds[replays[r].i], r, replays[r].i))
            /\ replays' = [replays EXCEPT ![r] =
                   IF replays[r].i = Len(replays[r].cmds) THEN DoneReplay
                   ELSE [replays[r] EXCEPT !.pc = "check",
                                           !.i = replays[r].i + 1]]
            /\ UNCHANGED panicked
  /\ UNCHANGED <<motors, running, patterns, chanClosed, done, mu, worker,
                 lastErr, epResult, shut>>
  /\ UNCHANGED <<hubVars, anVars, safVars, sysVars>>

\* processCommands, case cmd := <-c.controlChan, and executeCommand up to
\* its validation (lines 110-111, 122-143)
WorkerReceive ==
  /\ ~panicked
  /\ worker.pc = "select"
  /\ controlChan # <<>> \/ chanClosed
  /\ LET cmd == IF controlChan # <<>> THEN Head(controlChan) ELSE ZeroCommand
         err == Validate(cmd, motors)
     IN /\ controlChan' = IF controlChan # <<>> THEN Tail(controlChan)
                          ELSE controlChan
        /\ IF err # ErrNone
             THEN /\ lastErr' = err
                  /\ worker' = IdleWorker
                  /\ UNCHANGED mu
             ELSE /\ worker' = [IdleWorker EXCEPT !.pc = "execWrite",
                                  !.cmd = cmd, !.speed = ClampSpeed(cmd.Speed)]
                  /\ mu' = "worker"
                  /\ UNCHANGED lastErr
  /\ UNCHANGED <<motors, running, patterns, chanClosed, done, epResult,
                 replays, shut, panicked>>
  /\ UNCHANGED <<hubVars, anVars, safVars, sysVars>>

\* executeCommand, lines 145-148: the writes of an accepted command
WorkerExecWrite ==
  /\ ~panicked
  /\ worker.pc = "execWrite"
  /\ motors' = [motors EXCEPT ![worker.cmd.ID].Position = worker.cmd.Position,
                              ![worker.cmd.ID].Speed = worker.speed]
  /\ lastErr' = ErrNone
  /\ mu' = "free"
  /\ worker' = IdleWorker
  /\ UNCHANGED <<running, patterns, controlChan, chanClosed, done, epResult,
                 replays, shut, panicked>>
  /\ UNCHANGED <<hubVars, anVars, safVars, sysVars>>

\* processCommands, case <-c.done
WorkerExit ==
  /\ ~panicked
  /\ worker.pc = "select"
  /\ done
  /\ worker' = [worker EXCEPT !.pc = "exited"]
  /\ UNCHANGED <<motors, running, patterns, controlChan, chanClosed, done, mu,
                 lastErr, epResult, replays, shut, panicked>>
  /\ UNCHANGED <<hubVars, anVars, safVars, sysVars>>

\* WorkerTick in a loop that looks at the ticker only when no command is
\* queued
WorkerTickWhenIdle ==
  /\ ~panicked
  /\ worker.pc = "select"
  /\ controlChan = <<>>
  /\ worker' = [worker EXCEPT !.pc = "upd", !.todo = MotorIds]
  /\ mu' = "worker"
  /\ UNCHANGED <<motors, running, patterns, controlChan, chanClosed, done,
                 lastErr, epResult, replays, shut, panicked>>
  /\ UNCHANGED <<hubVars, anVars, safVars, sysVars>>

\* processCommands, case <-ticker.C: updateMotorStates takes the lock
WorkerTick ==
  /\ ~panicked
  /\ worker.pc = "select"
  /\ worker' = [worker EXCEPT !.pc = "upd", !.todo = MotorIds]
  /\ mu' = "worker"
  /\ UNCHANGED <<motors, running, patterns, controlChan, chanClosed, done,
                 lastErr, epResult, replays, shut, panicked>>
  /\ UNCHANGED <<hubVars, anVars, safVars, sysVars>>

\* updateMotorStates, lines 156-164: visit one motor, read it, compute
UpdRead(m) ==
  /\ ~panicked
  /\ worker.pc = "upd"
  /\ m \in worker.todo
  /\ IF ~motors[m].IsEnabled
       THEN worker' = [worker EXCEPT !.todo = worker.todo \ {m}]
       ELSE worker' = [worker EXCEPT !.pc = "updWrite", !.motor = m,
                         !.newPos = Integrate(motors[m]).Position,
                         !.zero = Integrate(motors[m]).zero]
  /\ UNCHANGED <<motors, running, patterns, controlChan, chanClosed, done, mu,
                 lastErr, epResult, replays, shut, panicked>>
  /\ UNCHANGED <<hubVars, anVars, safVars, sysVars>>

\* updateMotorStates, lines 167-175: the writes for the visited motor
UpdWrite ==
  /\ ~panicked
  /\ worker.pc = "updWrite"
  /\ motors' = [motors EXCEPT
                  ![worker.motor].Position = worker.newPos,
                  ![worker.motor].Speed =
                     IF worker.zero THEN 0 ELSE motors[worker.motor].Speed]
  /\ worker' = [IdleWorker EXCEPT !.pc = "upd",
                                  !.todo = worker.todo \ {worker.motor}]
  /\ UNCHANGED <<running, patterns, controlChan, chanClosed, done, mu,
                 lastErr, epResult, replays, shut, panicked>>
  /\ UNCHANGED <<hubVars, anVars, safVars, sysVars>>

\* updateMotorStates returns: the deferred Unlock
UpdEnd ==
  /\ ~panicked
  /\ worker.pc = "upd"
  /\ worker.todo = {}
  /\ worker' = IdleWorker
  /\ mu' = "free"
  /\ UNCHANGED <<motors, running, patterns, controlChan, chanClosed, done,
                 lastErr, epResult, replays, shut, panicked>>
  /\ UNCHANGED <<hubVars, anVars, safVars, sysVars>>

\* Shutdown, lines 211-213: running = false under the lock; a caller may
\* call Shutdown again once it has returned
ShutdownBegin ==
  /\ ~panicked
  /\ shut.pc \in {"idle", "returned"}
  /\ mu = "free"
  /\ running' = FALSE
  /\ shut' = [shut EXCEPT !.pc = "closeDone"]
  /\ UNCHANGED <<motors, patterns, controlChan, chanClosed, done, mu, worker,
                 lastErr, epResult, replays, panicked>>
  /\ UNCHANGED <<hubVars, anVars, safVars, sysVars>>

\* Shutdown, line 215: close(c.done); closing a closed channel panics
ShutdownCloseDone ==
  /\ ~panicked
  /\ shut.pc = "closeDone"
  /\ IF done
       THEN /\ panicked' = TRUE
            /\ shut' = [shut EXCEPT !.pc = "panic"]
            /\ UNCHANGED done
       ELSE /\ done' = TRUE
            /\ shut' = [shut EXCEPT !.pc = "closeChan"]
            /\ UNCHANGED panicked
  /\ UNCHANGED <<motors, running, patterns, controlChan, chanClosed, mu,
                 worker, lastErr, epResult, replays>>
  /\ UNCHANGED <<hubVars, anVars, safVars, sysVars>>

\* Shutdown, line 216: close(c.controlChan)
ShutdownCloseChan ==
  /\ ~panicked
  /\ shut.pc = "closeChan"
  /\ IF chanClosed
       THEN /\ panicked' = TRUE
            /\ shut' = [shut EXCEPT !.pc = "panic"]
            /\ UNCHANGED chanClosed
       ELSE /\ chanClosed' = TRUE
            /\ shut' = [shut EXCEPT !.pc = "disable", !.todo = MotorIds]
            /\ UNCHANGED panicked
  /\ UNCHANGED <<motors, running, patterns, controlChan, done, mu, worker,
                 lastErr, epResult, replays>>
  /\ UNCHANGED <<hubVars, anVars, safVars, sysVars>>

\* Shutdown, line 220: motor.IsEnabled = false, without the lock
ShutdownDisable(m) ==
  /\ ~panicked
  /\ shut.pc = "disable"
  /\ m \in shut.todo
  /\ motors' = [motors EXCEPT ![m].IsEnabled = FALSE]
  /\ shut' = [shut EXCEPT !.pc = "zero", !.motor = m]
  /\ UNCHANGED <<running, patterns, controlChan, chanClosed, done, mu, worker,
                 lastErr, epResult, replays, panicked>>
  /\ UNCHANGED <<hubVars, anVars, safVars, sysVars>>

\* Shutdown, line 221: motor.Speed = 0, without the lock
ShutdownZero ==
  /\ ~panicked
  /\ shut.pc = "zero"
  /\ motors' = [motors EXCEPT ![shut.motor].Speed = 0]
  /\ shut' = [pc |-> "disable", todo |-> shut.todo \ {shut.motor},
               motor |-> ""]
  /\ UNCHANGED <<running, patterns, controlChan, chanClosed, done, mu, worker,
                 lastErr, epResult, replays, panicked>>
  /\ UNCHANGED <<hubVars, anVars, safVars, sysVars>>

\* Shutdown returns
ShutdownReturn ==
  /\ ~panicked
  /\ shut.pc = "disable"
  /\ shut.todo = {}
  /\ shut' = [pc |-> "returned", todo |-> {}, motor |-> ""]
  /\ UNCHANGED <<motors, running, patterns, controlChan, chanClosed, done, mu,
                 worker, lastErr, epResult, replays, panicked>>
  /\ UNCHANGED <<hubVars, anVars, safVars, sysVars>>

(***************************************************************************)
(* sensor.Hub                                                              *)
(*                                                                         *)
(* A Go slice is a window [off, off+len) onto a backing array whose spare  *)
(* cells up to the capacity can be written by append.  Hub.sensors holds   *)
(* each category's slice together with its backing array; a slice held by  *)
(* another goroutine either still shares the Hub's current backing array   *)
(* of a category (alias = that category) or has an array of its own.       *)
(***************************************************************************)
Zeros(n) == [i \in 1..n |-> 0]

\* the elements of one of the Hub's slices
Visible(s) == SubSeq(s.arr, s.off + 1, s.off + s.len)

\* the backing array of a slice held outside the Hub
Backing(sl) == IF sl.alias = "own" THEN sl.arr ELSE sensors[sl.alias].arr

\* the elements of a slice held outside the Hub
View(sl) == SubSeq(Backing(sl), sl.off + 1, sl.off + sl.len)

\* the last n elements of a sequence
LastN(seq, n) ==
  IF Len(seq) <= n THEN seq ELSE SubSeq(seq, Len(seq) - n + 1, Len(seq))

\* NewHub, lines 46-50: both channels open, the worker started
HubRunning ==
  /\ hubDone = FALSE
  /\ dataClosed = FALSE
  /\ hubWorker = "select"
  /\ hubShut = "idle"

\* NewHub: four empty buffers, an empty queue
NewHub ==
  /\ sensors = [c \in Categories |-> [arr |-> <<>>, off |-> 0, len |-> 0]]
  /\ dataChan = <<>>
  /\ processed = [c \in Categories |-> <<>>]
  /\ ingested = 0
  /\ orch = IdleOrch
  /\ HubRunning

\* the Hub after PreFill touch readings 1, 2, ... have been processed
FilledHub ==
  /\ \E slack \in 0..MaxSlack :
       sensors = [c \in Categories |->
                    IF c = "touch"
                      THEN [arr |-> [i \in 1..PreFill |-> PreValue(i)]
                                      \o Zeros(slack),
                            off |-> 0, len |-> PreFill]
                      ELSE [arr |-> <<>>, off |-> 0, len |-> 0]]
  /\ dataChan = <<>>
  /\ processed = [c \in Categories |->
                    IF c = "touch" THEN [i \in 1..PreFill |-> PreValue(i)]
                    ELSE <<>>]
  /\ ingested = 0
  /\ orch = IdleOrch
  /\ HubRunning

\* the Hub after one reading of each category analyzeBehavior looks at has
\* been processed
SensingHub ==
  /\ sensors = [c \in Categories |->
                  IF c = "touch"
                    THEN [arr |-> <<PreValue(1)>>, off |-> 0, len |-> 1]
                  ELSE IF c = "pressure"
                    THEN [arr |-> <<PreValue(2)>>, off |-> 0, len |-> 1]
                  ELSE IF c = "motion"
                    THEN [arr |-> <<PreValue(3)>>, off |-> 0, len |-> 1]
                  ELSE [arr |-> <<>>, off |-> 0, len |-> 0]]
  /\ dataChan = <<>>
  /\ processed = [c \in Categories |->
                    IF c = "touch" THEN <<PreValue(1)>>
                    ELSE IF c = "pressure" THEN <<PreValue(2)>>
                    ELSE IF c = "motion" THEN <<PreValue(3)>>
                    ELSE <<>>]
  /\ ingested = 0
  /\ orch = IdleOrch
  /\ HubRunning

\* the categories the producers of a full queue go on to submit
FairCategories == {"touch", "pressure"}

\* the i-th reading of a queue that producers filled before the worker ran
QueuedValue(i) == i - DataChanCap - 1

\* the Hub with DataChanCap touch readings queued and none processed yet
FullQueueHub ==
  /\ sensors = [c \in Categories |-> [arr |-> <<>>, off |-> 0, len |-> 0]]
  /\ dataChan = [i \in 1..DataChanCap |->
                   [Type |-> "touch", Value |-> QueuedValue(i)]]
  /\ processed = [c \in Categories |-> <<>>]
  /\ ingested = 0
  /\ orch = IdleOrch
  /\ HubRunning

\* AppendValue leaving the buffer as it was
AppendValueLost(s, v, slack) == s

\* processData, line 61: append(h.sensors[data.Type], data.Value); a full
\* backing array is replaced by a new one with `slack` spare cells
AppendValue(s, v, slack) ==
  IF s.off + s.len < Len(s.arr)
    THEN [s EXCEPT !.arr[s.off + s.len + 1] = v, !.len = s.len + 1]
    ELSE [arr |-> Visible(s) \o <<v>> \o Zeros(slack), off |-> 0,
          len |-> s.len + 1]

\* KeepLast dropping the newest reading instead of the oldest
KeepLastDropsNewest(s) ==
  IF s.len > BufferCap THEN [s EXCEPT !.len = s.len - 1] ELSE s

\* processData, lines 63-65: keep only the last 1000 readings
KeepLast(s) ==
  IF s.len > BufferCap
    THEN [s EXCEPT !.off = s.off + 1, !.len = s.len - 1]
    ELSE s

\* a slice that shared the array `old` of category c keeps it when the Hub
\* moves on to a new array
Detach(sl, c, old) ==
  IF sl.alias = c
    THEN [alias |-> "own", arr |-> SubSeq(old, sl.off + 1, Len(old)),
          off |-> 0, len |-> sl.len]
    ELSE sl

\* the value of the n-th reading ingested: every reading is distinguishable
NextValue == ingested + 1

\* the zero readings appended so far
ZeroReads ==
  IF ZeroReading.Type \in DOMAIN sensors
    THEN sensors[ZeroReading.Type].len ELSE 0

\* AddSensorData: send on dataChan (blocks while the queue is full, panics
\* when dataChan is closed)
AddSensorData(c, v) ==
  /\ ~panicked
  /\ ingested < MaxIngest
  /\ IF dataClosed
       THEN /\ panicked' = TRUE
            /\ UNCHANGED dataChan
       ELSE /\ Len(dataChan) < DataChanCap
            /\ dataChan' = Append(dataChan, [Type |-> c, Value |-> v])
            /\ UNCHANGED panicked
  /\ ingested' = ingested + 1
  /\ UNCHANGED <<sensors, processed, orch, hubLife>>
  /\ UNCHANGED <<ctlState, anVars, safVars, sysVars>>

\* processData, lines 59-66: receive one reading (the zero value once the
\* closed dataChan is empty), append and evict under the write lock
ProcessData ==
  /\ ~panicked
  /\ hubWorker = "select"
  /\ dataChan # <<>> \/ (dataClosed /\ ZeroReads < MaxZeroReads)
  /\ LET d == IF dataChan # <<>> THEN Head(dataChan) ELSE ZeroReading
         s == IF d.Type \in DOMAIN sensors THEN sensors[d.Type] ELSE NilSlice
         before == IF d.Type \in DOMAIN processed THEN processed[d.Type]
                   ELSE <<>>
         grows == (s.off + s.len = Len(s.arr))
     IN \E slack \in 0..MaxSlack :
          /\ ~grows => slack = 0
          /\ sensors' = [k \in DOMAIN sensors \cup {d.Type} |->
                           IF k = d.Type
                             THEN KeepLast(AppendValue(s, d.Value, slack))
                             ELSE sensors[k]]
          /\ processed' = [k \in DOMAIN processed \cup {d.Type} |->
                             IF k = d.Type THEN Append(before, d.Value)
                             ELSE processed[k]]
          /\ orch' = IF grows
                       THEN [orch EXCEPT
                               !.touch = Detach(orch.touch, d.Type, s.arr),
                               !.pressure = Detach(orch.pressure, d.Type, s.arr),
                               !.motion = Detach(orch.motion, d.Type, s.arr),
                               !.all = Detach(orch.all, d.Type, s.arr)]
                       ELSE orch
  /\ dataChan' = (IF dataChan # <<>> THEN Tail(dataChan) ELSE dataChan)
  /\ UNCHANGED <<ingested, hubLife>>
  /\ UNCHANGED <<ctlVars, anVars, safVars, sysVars>>

\* processData, case <-h.done
HubWorkerExit ==
  /\ ~panicked
  /\ hubWorker = "select"
  /\ hubDone
  /\ hubWorker' = "exited"
  /\ UNCHANGED <<sensors, dataChan, processed, ingested, orch, hubDone,
                 dataClosed, hubShut>>
  /\ UNCHANGED <<ctlVars, anVars, safVars, sysVars>>

\* Hub.Shutdown, line 91: close(h.done); closing a closed channel panics.
\* A caller may call Shutdown again once it has returned.
HubShutdownCloseDone ==
  /\ ~panicked
  /\ hubShut \in {"idle", "returned"}
  /\ IF hubDone
       THEN /\ panicked' = TRUE
            /\ hubShut' = "panic"
            /\ UNCHANGED hubDone
       ELSE /\ hubDone' = TRUE
            /\ hubShut' = "closeChan"
            /\ UNCHANGED panicked
  /\ UNCHANGED <<sensors, dataChan, processed, ingested, orch, dataClosed,
                 hubWorker>>
  /\ UNCHANGED <<ctlState, anVars, safVars, sysVars>>

\* Hub.Shutdown, line 92: close(h.dataChan), then return
HubShutdownCloseChan ==
  /\ ~panicked
  /\ hubShut = "closeChan"
  /\ IF dataClosed
       THEN /\ panicked' = TRUE
            /\ hubShut' = "panic"
            /\ UNCHANGED dataClosed
       ELSE /\ dataClosed' = TRUE
            /\ hubShut' = "returned"
            /\ UNCHANGED panicked
  /\ UNCHANGED <<sensors, dataChan, processed, ingested, orch, hubDone,
                 hubWorker>>
  /\ UNCHANGED <<ctlState, anVars, safVars, sysVars>>

\* GetSensorData, lines 80-86: the slice header of the category's buffer
GetSensorData(sType) ==
  [alias |-> sType, arr |-> <<>>, off |-> sensors[sType].off,
   len |-> sensors[sType].len]

(***************************************************************************)
(* core.System: the analyzeBehavior goroutine                              *)
(***************************************************************************)
\* array `arr` with the elements xs stored after its first `pos` cells
WriteAt(arr, pos, xs) ==
  [i \in 1..Len(arr) |->
     IF i > pos /\ i <= pos + Len(xs) THEN xs[i - pos] ELSE arr[i]]

\* append(sl, xs...) fits into the spare cells of sl's backing array
Fits(sl, xs) == sl.off + sl.len + Len(xs) <= Len(Backing(sl))

\* the slice append(sl, xs...) returns
AppendResult(sl, xs, slack) ==
  IF Fits(sl, xs)
    THEN IF sl.alias = "own"
           THEN [sl EXCEPT !.arr = WriteAt(sl.arr, sl.off + sl.len, xs),
                           !.len = sl.len + Len(xs)]
           ELSE [sl EXCEPT !.len = sl.len + Len(xs)]
    ELSE [alias |-> "own", arr |-> View(sl) \o xs \o Zeros(slack),
          off |-> 0, len |-> sl.len + Len(xs)]

\* Hub.sensors after append(sl, xs...): an append that fits writes into the
\* array sl shares with the Hub
AppendWrites(sl, xs) ==
  IF Fits(sl, xs) /\ sl.alias # "own"
    THEN [sensors EXCEPT
            ![sl.alias].arr = WriteAt(sensors[sl.alias].arr, sl.off + sl.len, xs)]
    ELSE sensors

RECURSIVE SumSeq(_)
\* the sum of a sequence of readings
SumSeq(xs) == IF xs = <<>> THEN 0 ELSE Head(xs) + SumSeq(Tail(xs))

RECURSIVE SumSquares(_)
\* the sum of the squares of a sequence of readings
SumSquares(xs) ==
  IF xs = <<>> THEN 0 ELSE Head(xs) * Head(xs) + SumSquares(Tail(xs))

\* calculateFrequency, lines 432-437: the readings that differ from their
\* predecessor
Changes(xs) == Cardinality({i \in 2..Len(xs) : xs[i] # xs[i - 1]})

\* calculateIntensity, lines 416-427: the mean of the two latest readings,
\* in hundredths
calculateIntensity(touch, pressure) ==
  IF touch = <<>> \/ pressure = <<>> THEN 0
  ELSE ((touch[Len(touch)] + pressure[Len(pressure)]) * Unit) \div 2

\* calculateFrequency, lines 429-442, in hundredths, cut off
calculateFrequency(motion) ==
  IF Len(motion) < 2 THEN 0 ELSE (Changes(motion) * Unit) \div Len(motion)

\* calculateConsistency, lines 448-470: 1 / (1 + variance), in hundredths,
\* cut off; the variance of n readings is (n * sum of squares - sum^2) / n^2
calculateConsistency(allData) ==
  LET n == Len(allData)
  IN IF n < 2 THEN Unit
     ELSE (Unit * n * n)
            \div (n * n + n * SumSquares(allData)
                    - SumSeq(allData) * SumSeq(allData))

\* analyzeBehavior, case <-s.ctx.Done()
OrchExit ==
  /\ ~panicked
  /\ orch.pc = "idle"
  /\ cancelled
  /\ orch' = [IdleOrch EXCEPT !.pc = "exited"]
  /\ UNCHANGED <<sensors, dataChan, processed, ingested, hubLife>>
  /\ UNCHANGED <<ctlVars, anVars, safVars, sysVars>>

\* analyzeBehavior, case <-ticker.C, lines 386-389: the read of isActive,
\* without the System's lock
OrchTick ==
  /\ ~panicked
  /\ orch.pc = "idle"
  /\ orch' = [IdleOrch EXCEPT !.pc = IF isActive THEN "active" ELSE "exited"]
  /\ UNCHANGED <<sensors, dataChan, processed, ingested, hubLife>>
  /\ UNCHANGED <<ctlVars, anVars, safVars, sysVars>>

\* analyzeBehavior, line 392: touchData := GetSensorData(TypeTouch)
OrchTouch ==
  /\ ~panicked
  /\ orch.pc = "active"
  /\ orch' = [orch EXCEPT !.pc = "gotTouch", !.touch = GetSensorData("touch")]
  /\ UNCHANGED <<sensors, dataChan, processed, ingested, hubLife>>
  /\ UNCHANGED <<ctlVars, anVars, safVars, sysVars>>

\* analyzeBehavior, line 393: pressureData := GetSensorData(TypePressure)
OrchPressure ==
  /\ ~panicked
  /\ orch.pc = "gotTouch"
  /\ orch' = [orch EXCEPT !.pc = "gotPressure",
                          !.pressure = GetSensorData("pressure")]
  /\ UNCHANGED <<sensors, dataChan, processed, ingested, hubLife>>
  /\ UNCHANGED <<ctlVars, anVars, safVars, sysVars>>

\* analyzeBehavior, lines 394-403: motionData := GetSensorData(TypeMotion),
\* then skip the tick if one of the three is empty, else compute the
\* intensity and the frequency
OrchMotion ==
  /\ ~panicked
  /\ orch.pc = "gotPressure"
  /\ IF orch.touch.len = 0 \/ orch.pressure.len = 0
        \/ sensors["motion"].len = 0
       THEN orch' = IdleOrch
       ELSE orch' = [orch EXCEPT
                       !.pc = "appendPressure",
                       !.motion = GetSensorData("motion"),
                       !.metrics =
                          [Intensity |->
                             calculateIntensity(View(orch.touch),
                                                View(orch.pressure)),
                           Frequency |->
                             calculateFrequency(View(GetSensorData("motion"))),
                           Duration |-> Unit,
                           Consistency |-> 0]]
  /\ UNCHANGED <<sensors, dataChan, processed, ingested, hubLife>>
  /\ UNCHANGED <<ctlVars, anVars, safVars, sysVars>>

\* calculateConsistency, line 447, inner call: append(touch, pressure...)
OrchAppendPressure ==
  /\ ~panicked
  /\ orch.pc = "appendPressure"
  /\ \E slack \in 0..MaxSlack :
       /\ Fits(orch.touch, View(orch.pressure)) => slack = 0
       /\ orch' = [orch EXCEPT
                     !.pc = "appendMotion",
                     !.all = AppendResult(orch.touch, View(orch.pressure), slack)]
  /\ sensors' = AppendWrites(orch.touch, View(orch.pressure))
  /\ UNCHANGED <<dataChan, processed, ingested, hubLife>>
  /\ UNCHANGED <<ctlVars, anVars, safVars, sysVars>>

\* calculateConsistency, lines 447-470: the outer call
\* append(..., motion...) and the consistency of the readings it returns;
\* the slices are dropped
OrchAppendMotion ==
  /\ ~panicked
  /\ orch.pc = "appendMotion"
  /\ sensors' = AppendWrites(orch.all, View(orch.motion))
  /\ orch' = [IdleOrch EXCEPT
                 !.pc = "addMetrics",
                 !.metrics =
                    [orch.metrics EXCEPT
                       !.Consistency =
                          calculateConsistency(View(orch.all)
                                               \o View(orch.motion))]]
  /\ UNCHANGED <<dataChan, processed, ingested, hubLife>>
  /\ UNCHANGED <<ctlVars, anVars, safVars, sysVars>>

\* analyzeBehavior, line 409: s.behavior.AddMetrics(metrics), a send on the
\* Analyzer's inputChan (blocks while the queue is full, panics when
\* inputChan is closed); the tick ends
OrchAddMetrics ==
  /\ ~panicked
  /\ orch.pc = "addMetrics"
  /\ metricsSent < MaxMetrics
  /\ IF inputClosed
       THEN /\ panicked' = TRUE
            /\ orch' = [orch EXCEPT !.pc = "panic"]
            /\ UNCHANGED inputChan
       ELSE /\ Len(inputChan) < InputChanCap
            /\ inputChan' = Append(inputChan, orch.metrics)
            /\ orch' = IdleOrch
            /\ UNCHANGED panicked
  /\ metricsSent' = metricsSent + 1
  /\ UNCHANGED <<sensors, dataChan, processed, ingested, hubLife>>
  /\ UNCHANGED <<buffer, behaviorPatterns, currentState, computed, ticks,
                 anLife>>
  /\ UNCHANGED <<ctlState, safVars, sysVars>>

(***************************************************************************)
(* behavior.Analyzer                                                       *)
(*                                                                         *)
(* Metrics are integers in hundredths.  A mean is kept as the exact        *)
(* fraction num/den of the sum of the samples and their number, and        *)
(* compared with a constant by cross-multiplication.                       *)
(***************************************************************************)
RECURSIVE SumOf(_, _)
\* the sum of one field over the samples of a window
SumOf(win, field) ==
  IF win = <<>> THEN 0 ELSE win[1][field] + SumOf(Tail(win), field)

\* analyzeBuffer, lines 104-116: the mean of one field over the window
Mean(win, field) == [num |-> SumOf(win, field), den |-> Len(win)]

\* the fraction r compared with the constant c given in hundredths
Greater(r, c) == r.num > c * r.den
Less(r, c) == r.num < c * r.den

\* math.Abs(a - b) > c, for fractions a and b
ApartBy(a, b, c) == Abs(a.num * b.den - b.num * a.den) > c * a.den * b.den

\* classifyBehavior testing the distance of the two means first
classifyErraticFirst(intensity, frequency) ==
  IF ApartBy(intensity, frequency, 50) THEN BehaviorErratic
  ELSE IF Greater(intensity, 80) /\ Greater(frequency, 80)
    THEN BehaviorAggressive
  ELSE IF Less(intensity, 20) /\ Less(frequency, 20) THEN BehaviorPassive
  ELSE BehaviorNormal

\* classifyBehavior, lines 135-145
classifyBehavior(intensity, frequency) ==
  IF Greater(intensity, 80) /\ Greater(frequency, 80) THEN BehaviorAggressive
  ELSE IF Less(intensity, 20) /\ Less(frequency, 20) THEN BehaviorPassive
  ELSE IF ApartBy(intensity, frequency, 50) THEN BehaviorErratic
  ELSE BehaviorNormal

\* calculateConfidence, lines 148-157: the consistency limited to [0, 1]
calculateConfidence(consistency) ==
  IF Greater(consistency, Unit) THEN [num |-> Unit, den |-> 1]
  ELSE IF Less(consistency, 0) THEN [num |-> 0, den |-> 1]
  ELSE consistency

\* analyzeBuffer, lines 103-131, for a window that is not empty
analyzeBuffer(win) ==
  LET avgIntensity == Mean(win, "Intensity")
      avgFrequency == Mean(win, "Frequency")
      avgDuration == Mean(win, "Duration")
      avgConsistency == Mean(win, "Consistency")
  IN [Type |-> classifyBehavior(avgIntensity, avgFrequency),
      Confidence |-> calculateConfidence(avgConsistency),
      Metrics |-> [Intensity |-> avgIntensity, Frequency |-> avgFrequency,
                   Duration |-> avgDuration, Consistency |-> avgConsistency]]

\* the confidence of a pattern reaches the threshold
Confident(pattern) ==
  pattern.Confidence.num >= Threshold * pattern.Confidence.den

\* UpdateState taking the type of every pattern
UpdateStateAlways(state, pattern) == pattern.Type

\* addPattern, lines 170-172: the current state after a pattern
UpdateState(state, pattern) ==
  IF Confident(pattern) THEN pattern.Type ELSE state

\* KeepHistory dropping the newest pattern instead of the oldest
KeepHistoryDropsNewest(h) ==
  IF Len(h) > HistoryCap THEN SubSeq(h, 1, Len(h) - 1) ELSE h

\* addPattern, lines 165-167: keep only the last 1000 patterns
KeepHistory(h) == IF Len(h) > HistoryCap THEN Tail(h) ELSE h

\* KeepWindow dropping the newest sample instead of the oldest
KeepWindowDropsNewest(win) ==
  IF Len(win) > WindowCap THEN SubSeq(win, 1, Len(win) - 1) ELSE win

\* processPatterns, lines 78-80: keep only the last 60 samples
KeepWindow(win) == IF Len(win) > WindowCap THEN Tail(win) ELSE win

\* the pattern an earlier tick computed from the single sample of
\* duration i
PrePattern(i) ==
  analyzeBuffer(<<[Intensity |-> 50, Frequency |-> 50, Duration |-> i,
                   Consistency |-> 50]>>)

\* NewAnalyzer: empty history, state normal, the worker started
NewAnalyzer ==
  /\ inputChan = <<>>
  /\ buffer = <<>>
  /\ behaviorPatterns = <<>>
  /\ currentState = BehaviorNormal
  /\ computed = <<>>
  /\ ticks = 0
  /\ metricsSent = 0
  /\ anDone = FALSE
  /\ inputClosed = FALSE
  /\ anWorker = "select"
  /\ anShut = "idle"

\* the Analyzer after PreHistory ticks, each on a fresh worker window of
\* one sample of low consistency
FilledAnalyzer ==
  /\ inputChan = <<>>
  /\ buffer = <<>>
  /\ behaviorPatterns = [i \in 1..PreHistory |-> PrePattern(i)]
  /\ currentState = BehaviorNormal
  /\ computed = [i \in 1..PreHistory |-> PrePattern(i)]
  /\ ticks = 0
  /\ metricsSent = 0
  /\ anDone = FALSE
  /\ inputClosed = FALSE
  /\ anWorker = "select"
  /\ anShut = "idle"

\* the Analyzer after PreWindow samples were submitted and received, before
\* the first tick
FullWindowAnalyzer ==
  /\ inputChan = <<>>
  /\ buffer = [i \in 1..PreWindow |-> PreSample(i)]
  /\ behaviorPatterns = <<>>
  /\ currentState = BehaviorNormal
  /\ computed = <<>>
  /\ ticks = 0
  /\ metricsSent = 0
  /\ anDone = FALSE
  /\ inputClosed = FALSE
  /\ anWorker = "select"
  /\ anShut = "idle"

\* the zero values the worker has received from the closed inputChan and
\* still holds in its window
ZeroSamples == Cardinality({k \in DOMAIN buffer : buffer[k] = ZeroSample})

\* AddMetrics: send on inputChan (blocks while the queue is full, panics
\* when inputChan is closed)
AddMetrics(metrics) ==
  /\ ~panicked
  /\ metricsSent < MaxMetrics
  /\ IF inputClosed
       THEN /\ panicked' = TRUE
            /\ UNCHANGED inputChan
       ELSE /\ Len(inputChan) < InputChanCap
            /\ inputChan' = Append(inputChan, metrics)
            /\ UNCHANGED panicked
  /\ metricsSent' = metricsSent + 1
  /\ UNCHANGED <<buffer, behaviorPatterns, currentState, computed, ticks,
                 anLife>>
  /\ UNCHANGED <<ctlState, hubVars, safVars, sysVars>>

\* processPatterns, case metrics := <-a.inputChan: receive one sample (the
\* zero value once the closed inputChan is empty), append and evict
AnalyzerReceive ==
  /\ ~panicked
  /\ anWorker = "select"
  /\ inputChan # <<>> \/ (inputClosed /\ ZeroSamples < MaxZeroReads)
  /\ LET metrics == IF inputChan # <<>> THEN Head(inputChan) ELSE ZeroSample
     IN buffer' = KeepWindow(Append(buffer, metrics))
  /\ inputChan' = (IF inputChan # <<>> THEN Tail(inputChan) ELSE inputChan)
  /\ UNCHANGED <<behaviorPatterns, currentState, computed, ticks, metricsSent,
                 anLife>>
  /\ UNCHANGED <<ctlVars, hubVars, safVars, sysVars>>

\* AnalyzerTick emptying the window once its pattern is computed
AnalyzerTickClears ==
  /\ ~panicked
  /\ anWorker = "select"
  /\ buffer # <<>>
  /\ ticks < MaxTicks
  /\ LET pattern == analyzeBuffer(buffer)
     IN /\ behaviorPatterns' = KeepHistory(Append(behaviorPatterns, pattern))
        /\ currentState' = UpdateState(currentState, pattern)
        /\ computed' = Append(computed, pattern)
  /\ ticks' = ticks + 1
  /\ buffer' = <<>>
  /\ UNCHANGED <<inputChan, metricsSent, anLife>>
  /\ UNCHANGED <<ctlVars, hubVars, safVars, sysVars>>

\* processPatterns, case <-a.done
AnalyzerExit ==
  /\ ~panicked
  /\ anWorker = "select"
  /\ anDone
  /\ anWorker' = "exited"
  /\ UNCHANGED <<inputChan, buffer, behaviorPatterns, currentState, computed,
                 ticks, metricsSent, anDone, inputClosed, anShut>>
  /\ UNCHANGED <<ctlVars, hubVars, safVars, sysVars>>

\* Analyzer.Shutdown, line 200: close(a.done); closing a closed channel
\* panics.  A caller may call Shutdown again once it has returned.
AnalyzerShutdownCloseDone ==
  /\ ~panicked
  /\ anShut \in {"idle", "returned"}
  /\ IF anDone
       THEN /\ panicked' = TRUE
            /\ anShut' = "panic"
            /\ UNCHANGED anDone
       ELSE /\ anDone' = TRUE
            /\ anShut' = "closeChan"
            /\ UNCHANGED panicked
  /\ UNCHANGED <<inputChan, buffer, behaviorPatterns, currentState, computed,
                 ticks, metricsSent, inputClosed, anWorker>>
  /\ UNCHANGED <<ctlState, hubVars, safVars, sysVars>>

\* Analyzer.Shutdown, line 201: close(a.inputChan), then return
AnalyzerShutdownCloseChan ==
  /\ ~panicked
  /\ anShut = "closeChan"
  /\ IF inputClosed
       THEN /\ panicked' = TRUE
            /\ anShut' = "panic"
            /\ UNCHANGED inputClosed
       ELSE /\ inputClosed' = TRUE
            /\ anShut' = "returned"
            /\ UNCHANGED panicked
  /\ UNCHANGED <<inputChan, buffer, behaviorPatterns, currentState, computed,
                 ticks, metricsSent, anDone, anWorker>>
  /\ UNCHANGED <<ctlState, hubVars, safVars, sysVars>>

\* processPatterns, case <-ticker.C with a window that is not empty:
\* analyzeBuffer, then addPattern under the write lock
AnalyzerTick ==
  /\ ~panicked
  /\ anWorker = "select"
  /\ buffer # <<>>
  /\ ticks < MaxTicks
  /\ LET pattern == analyzeBuffer(buffer)
     IN /\ behaviorPatterns' = KeepHistory(Append(behaviorPatterns, pattern))
        /\ currentState' = UpdateState(currentState, pattern)
        /\ computed' = Append(computed, pattern)
  /\ ticks' = ticks + 1
  /\ UNCHANGED <<inputChan, buffer, metricsSent, anLife>>
  /\ UNCHANGED <<ctlVars, hubVars, safVars, sysVars>>

(***************************************************************************)
(* safety.SafetyMonitor                                                    *)
(***************************************************************************)
\* Escalate with the critical threshold one warning late
EscalateLate(level, n) ==
  LET warned == IF n > WarningCount THEN SafetyWarning ELSE level
  IN IF n > CriticalCount + 1 THEN SafetyCritical ELSE warned

\* Escalate setting SafetyCritical only for the first warning above the
\* critical threshold
EscalateOnce(level, n) ==
  LET warned == IF n > WarningCount THEN SafetyWarning ELSE level
  IN IF n = CriticalCount + 1 THEN SafetyCritical ELSE warned

\* AddWarning, lines 81-87: the level after the n-th warning was recorded
Escalate(level, n) ==
  LET warned == IF n > WarningCount THEN SafetyWarning ELSE level
  IN IF n > CriticalCount THEN SafetyCritical ELSE warned

\* InitializeSafetyProtocols: level normal, no warnings
NewMonitor ==
  /\ currentLevel = SafetyNormal
  /\ warnings = <<>>
  /\ lastCheck = 0
  /\ monitor = "wait"

\* NewSystem, lines 258-307: active, context live, lock free
NewSystem ==
  /\ isActive = TRUE
  /\ cancelled = FALSE
  /\ sysMu = "free"
  /\ sysShut = "idle"

\* AddWarning: record the warning and escalate, under the write lock
AddWarning(warning) ==
  /\ ~panicked
  /\ Len(warnings) < MaxWarnings
  /\ warnings' = Append(warnings, warning)
  /\ currentLevel' = Escalate(currentLevel, Len(warnings) + 1)
  /\ UNCHANGED <<lastCheck, monitor>>
  /\ UNCHANGED <<ctlVars, hubVars, anVars, sysVars>>

\* runSafetyChecks, lines 51-54: on a tick, IsActive under the System's
\* read lock; the goroutine ends when the System is not active
RunSafetyChecks ==
  /\ ~panicked
  /\ monitor = "wait"
  /\ sysMu = "free"
  /\ monitor' = IF isActive THEN "check" ELSE "exited"
  /\ UNCHANGED <<currentLevel, warnings, lastCheck>>
  /\ UNCHANGED <<ctlVars, hubVars, anVars, sysVars>>

\* performSafetyCheck: stamp the check, under the write lock; the stamp
\* counts the checks up to MaxChecks
PerformSafetyCheck ==
  /\ ~panicked
  /\ monitor = "check"
  /\ lastCheck' = IF lastCheck < MaxChecks THEN lastCheck + 1 ELSE lastCheck
  /\ monitor' = "wait"
  /\ UNCHANGED <<currentLevel, warnings>>
  /\ UNCHANGED <<ctlVars, hubVars, anVars, sysVars>>

(***************************************************************************)
(* core.System: Shutdown                                                   *)
(***************************************************************************)
\* System.Shutdown, lines 475-479: take the System's write lock, clear
\* isActive, cancel the context
SysShutdownBegin ==
  /\ ~panicked
  /\ sysShut = "idle"
  /\ sysMu = "free"
  /\ sysMu' = "shutdown"
  /\ isActive' = FALSE
  /\ cancelled' = TRUE
  /\ sysShut' = "neural"
  /\ UNCHANGED <<ctlVars, hubVars, anVars, safVars>>

\* System.Shutdown, line 482: neuralNet.Shutdown takes the Network's write
\* lock and drops the weights
SysShutdownNeural ==
  /\ ~panicked
  /\ sysShut = "neural"
  /\ sysShut' = "hub"
  /\ UNCHANGED <<isActive, cancelled, sysMu>>
  /\ UNCHANGED <<ctlVars, hubVars, anVars, safVars>>

\* System.Shutdown, line 483: the steps of sensorHub.Shutdown
SysShutdownHub ==
  /\ sysShut = "hub"
  /\ hubShut # "returned"
  /\ HubShutdownCloseDone \/ HubShutdownCloseChan

\* System.Shutdown, line 484: the steps of motionCtrl.Shutdown
SysShutdownMotion ==
  /\ sysShut = "motion"
  /\ shut.pc # "returned"
  /\ \/ ShutdownBegin
     \/ ShutdownCloseDone
     \/ ShutdownCloseChan
     \/ \E m \in MotorIds : ShutdownDisable(m)
     \/ ShutdownZero
     \/ ShutdownReturn

\* System.Shutdown, line 485: the steps of behavior.Shutdown
SysShutdownBehavior ==
  /\ sysShut = "behavior"
  /\ anShut # "returned"
  /\ AnalyzerShutdownCloseDone \/ AnalyzerShutdownCloseChan

\* System.Shutdown, lines 483-485: a component's Shutdown has returned,
\* the next one is called
SysShutdownAdvance ==
  /\ ~panicked
  /\ \/ sysShut = "hub" /\ hubShut = "returned" /\ sysShut' = "motion"
     \/ sysShut = "motion" /\ shut.pc = "returned" /\ sysShut' = "behavior"
     \/ sysShut = "behavior" /\ anShut = "returned" /\ sysShut' = "nlp"
  /\ UNCHANGED <<isActive, cancelled, sysMu>>
  /\ UNCHANGED <<ctlVars, hubVars, anVars, safVars>>

\* System.Shutdown, lines 486-487: nlpProc.Shutdown cancels the processor's
\* context; the deferred Unlock; return
SysShutdownReturn ==
  /\ ~panicked
  /\ sysShut = "nlp"
  /\ sysShut' = "returned"
  /\ sysMu' = "free"
  /\ UNCHANGED <<isActive, cancelled>>
  /\ UNCHANGED <<ctlVars, hubVars, anVars, safVars>>

Init == NewController /\ NewHub /\ NewAnalyzer /\ NewMonitor /\ NewSystem

Next ==
  \/ \E name \in PatternNames, cmds \in PatternPool : AddPattern(name, cmds)
  \/ \E name \in PatternNames : ExecutePattern(name)
  \/ \E r \in ReplayIds : ReplayCheck(r)
  \/ \E r \in ReplayIds : ReplaySend(r)
  \/ WorkerReceive
  \/ WorkerExecWrite
  \/ WorkerExit
  \/ WorkerTick
  \/ \E m \in MotorIds : UpdRead(m)
  \/ UpdWrite
  \/ UpdEnd
  \/ ShutdownBegin
  \/ ShutdownCloseDone
  \/ ShutdownCloseChan
  \/ \E m \in MotorIds : ShutdownDisable(m)
  \/ ShutdownZero
  \/ ShutdownReturn

\* the motion controller with its worker, replays and Shutdown
Spec == Init /\ [][Next]_vars

InitHub ==
  /\ NewController /\ (NewHub \/ FilledHub) /\ NewAnalyzer /\ NewMonitor
  /\ NewSystem

NextHub ==
  \/ \E c \in Categories : AddSensorData(c, NextValue)
  \/ ProcessData

\* the running sensor hub with its worker and producers
SpecHub == InitHub /\ [][NextHub]_vars

InitSys == NewController /\ NewHub /\ NewAnalyzer /\ NewMonitor /\ NewSystem

NextSys ==
  \/ \E c \in Categories : AddSensorData(c, NextValue)
  \/ ProcessData
  \/ OrchTick
  \/ OrchTouch
  \/ OrchPressure
  \/ OrchMotion
  \/ OrchAppendPressure
  \/ OrchAppendMotion
  \/ OrchAddMetrics

\* the sensor hub together with the System's periodic analysis task
SpecSys == InitSys /\ [][NextSys]_vars

InitHubLife == NewController /\ NewHub /\ NewAnalyzer /\ NewMonitor /\ NewSystem

NextHubLife ==
  \/ \E c \in Categories : AddSensorData(c, NextValue)
  \/ ProcessData
  \/ HubWorkerExit
  \/ HubShutdownCloseDone
  \/ HubShutdownCloseChan

\* the sensor hub with its worker, producers and Shutdown
SpecHubLife == InitHubLife /\ [][NextHubLife]_vars

InitHubFair == NewController /\ FullQueueHub /\ NewAnalyzer /\ NewMonitor /\ NewSystem

NextHubFair ==
  \/ \E c \in FairCategories : AddSensorData(c, NextValue)
  \/ ProcessData

\* the running sensor hub started on a full queue; the worker's receive is
\* the only ready case of its select, and a runnable goroutine is scheduled
SpecHubFair == InitHubFair /\ [][NextHubFair]_vars /\ WF_vars(ProcessData)

InitAnalyzer == NewController /\ NewHub /\ NewAnalyzer /\ NewMonitor /\ NewSystem

NextAnalyzer ==
  \/ \E metrics \in SamplePool : AddMetrics(metrics)
  \/ AnalyzerReceive
  \/ AnalyzerTick

\* the behaviour analyzer with its worker and producers
SpecAnalyzer == InitAnalyzer /\ [][NextAnalyzer]_vars

InitHistory == NewController /\ NewHub /\ FilledAnalyzer /\ NewMonitor /\ NewSystem

NextHistory ==
  \/ \E metrics \in HistoryPool : AddMetrics(metrics)
  \/ AnalyzerReceive
  \/ AnalyzerTick

\* the behaviour analyzer started on an almost full history
SpecHistory == InitHistory /\ [][NextHistory]_vars

InitWindow ==
  NewController /\ NewHub /\ FullWindowAnalyzer /\ NewMonitor /\ NewSystem

NextWindow ==
  \/ \E metrics \in WindowPool : AddMetrics(metrics)
  \/ AnalyzerReceive
  \/ AnalyzerTick

\* the behaviour analyzer started on an almost full window
SpecWindow == InitWindow /\ [][NextWindow]_vars

InitAnalyzerLife ==
  NewController /\ NewHub /\ NewAnalyzer /\ NewMonitor /\ NewSystem

NextAnalyzerLife ==
  \/ \E metrics \in WindowPool : AddMetrics(metrics)
  \/ AnalyzerReceive
  \/ AnalyzerTick
  \/ AnalyzerExit
  \/ AnalyzerShutdownCloseDone
  \/ AnalyzerShutdownCloseChan

\* the behaviour analyzer with its worker, producers and Shutdown
SpecAnalyzerLife == InitAnalyzerLife /\ [][NextAnalyzerLife]_vars

InitSafety == NewController /\ NewHub /\ NewAnalyzer /\ NewMonitor /\ NewSystem

NextSafety ==
  \/ \E warning \in WarningPool : AddWarning(warning)
  \/ RunSafetyChecks
  \/ PerformSafetyCheck

\* the safety monitor with its periodic check and its callers
SpecSafety == InitSafety /\ [][NextSafety]_vars

InitSysLife ==
  NewController /\ SensingHub /\ NewAnalyzer /\ NewMonitor /\ NewSystem

NextSysLife ==
  \/ SysShutdownBegin
  \/ SysShutdownNeural
  \/ SysShutdownHub
  \/ SysShutdownMotion
  \/ SysShutdownBehavior
  \/ SysShutdownAdvance
  \/ SysShutdownReturn
  \/ OrchExit
  \/ OrchTick
  \/ OrchTouch
  \/ OrchPressure
  \/ OrchMotion
  \/ OrchAppendPressure
  \/ OrchAppendMotion
  \/ OrchAddMetrics
  \/ ProcessData
  \/ HubWorkerExit
  \/ AnalyzerReceive
  \/ AnalyzerTick
  \/ AnalyzerExit
  \/ WorkerExit

\* the System with its analysis task, its components' workers and its
\* Shutdown; the Controller's worker is idle and the monitor is left out
SpecSysLife == InitSysLife /\ [][NextSysLife]_vars

InitSupervise ==
  NewController /\ NewHub /\ NewAnalyzer /\ NewMonitor /\ NewSystem

NextSupervise ==
  \/ \E metrics \in WindowPool : AddMetrics(metrics)
  \/ AnalyzerReceive
  \/ AnalyzerTick
  \/ RunSafetyChecks
  \/ PerformSafetyCheck
  \/ \E warning \in WarningPool : AddWarning(warning)

\* the analyzer's worker and the monitor's periodic check are goroutines
\* that run whenever they can; nothing makes a caller of AddWarning run
SuperviseFairness ==
  /\ WF_vars(AnalyzerReceive)
  /\ WF_vars(AnalyzerTick)
  /\ WF_vars(RunSafetyChecks)
  /\ WF_vars(PerformSafetyCheck)

\* the active System's behaviour analyzer and safety monitor side by side
SpecSupervise ==
  InitSupervise /\ [][NextSupervise]_vars /\ SuperviseFairness

InitRun == NewController /\ NewHub /\ NewAnalyzer /\ NewMonitor /\ NewSystem

NextRun ==
  \/ \E name \in PatternNames, cmds \in PatternPool : AddPattern(name, cmds)
  \/ \E name \in PatternNames : ExecutePattern(name)
  \/ \E r \in ReplayIds : ReplayCheck(r)
  \/ \E r \in ReplayIds : ReplaySend(r)
  \/ WorkerReceive
  \/ WorkerExecWrite
  \/ WorkerTick
  \/ \E m \in MotorIds : UpdRead(m)
  \/ UpdWrite
  \/ UpdEnd

\* a goroutine that can run is scheduled: the worker's handler steps and the
\* replays' steps
RunFairness ==
  /\ WF_vars(WorkerExecWrite)
  /\ WF_vars(\E m \in MotorIds : UpdRead(m))
  /\ WF_vars(UpdWrite)
  /\ WF_vars(UpdEnd)
  /\ \A r \in ReplayIds : WF_vars(ReplayCheck(r)) /\ WF_vars(ReplaySend(r))

\* select chooses among its ready cases by a uniform pseudo-random draw, so
\* a case that is ready again and again is chosen again and again
SelectFairness == SF_vars(WorkerReceive) /\ SF_vars(WorkerTick)

\* the motion controller while it stays running: its worker, the replays
\* and their callers, with no Shutdown
SpecRun == InitRun /\ [][NextRun]_vars /\ RunFairness /\ SelectFairness

(***************************************************************************)
(* Properties of the motion controller                                     *)
(***************************************************************************)
\* the command the worker's next receive from controlChan yields
Received == IF controlChan # <<>> THEN Head(controlChan) ELSE ZeroCommand

\* this step is the worker receiving a command and validating it
ReceiveStep ==
  /\ worker.pc = "select"
  /\ worker'.pc \in {"select", "execWrite"}
  /\ controlChan # <<>> \/ chanClosed
  /\ controlChan' = (IF controlChan # <<>> THEN Tail(controlChan) ELSE controlChan)
  /\ lastErr' # lastErr \/ worker' # worker \/ controlChan' # controlChan

\* C1: every motor's position lies within [MinPosition, MaxPosition] and
\* the magnitude of its speed does not exceed MaxSpeed, in every state.
C1_MotorWithinLimits ==
  \A m \in MotorIds :
    /\ MinPosition <= motors[m].Position
    /\ motors[m].Position <= MaxPosition
    /\ Abs(motors[m].Speed) <= MaxSpeed

\* a command above the speed limit has been executed and integrated once
C1_Witness ==
  \E m \in MotorIds :
    /\ motors[m].Speed = MaxSpeed
    /\ motors[m].Position = CmdFast.Position + (MaxSpeed * PosScale) \div 100

\* C2: a motor that the running integration step has already advanced and
\* that now stands on MinPosition or MaxPosition has speed 0.
C2_BoundaryStopsMotor ==
  \A m \in MotorIds :
    ( /\ worker.pc \in {"upd", "updWrite"}
      /\ m \notin worker.todo
      /\ motors[m].IsEnabled
      /\ motors[m].Position \in {MinPosition, MaxPosition} )
    => motors[m].Speed = 0

\* C3: once Shutdown has returned every motor is disabled with speed 0 and
\* no step changes a motor any more.
C3_ShutdownStopsMotors ==
  [][ shut.pc = "returned"
      => \A m \in MotorIds :
           /\ ~motors[m].IsEnabled
           /\ motors[m].Speed = 0
           /\ motors'[m] = motors[m] ]_vars

C5_UnknownOrDisabledRejected ==
  [][ ( /\ ReceiveStep
        /\ Received.ID \notin MotorIds \/ ~motors[Received.ID].IsEnabled )
      => /\ motors' = motors
         /\ worker'.pc = "select"
         /\ lastErr' = (IF Received.ID \notin MotorIds THEN ErrMotorNotFound
                        ELSE ErrMotorDisabled) ]_vars

\* a queued command for a motor that Shutdown disabled has been rejected
C5_Witness == lastErr = ErrMotorDisabled

\* the target speed limited to [-MaxSpeed, MaxSpeed], sign kept
SignedClamp(target) ==
  IF target > MaxSpeed THEN MaxSpeed
  ELSE IF target < -MaxSpeed THEN -MaxSpeed
  ELSE target

\* C6: the writes of an accepted command set the motor's position to the
\* target position and its speed to the target speed limited to
\* [-MaxSpeed, MaxSpeed], so a target speed within the limit is kept as is.
C6_AcceptedCommandApplied ==
  [][ (worker.pc = "execWrite" /\ worker'.pc = "select")
      => /\ motors'[worker.cmd.ID].Position = worker.cmd.Position
         /\ motors'[worker.cmd.ID].Speed = SignedClamp(worker.cmd.Speed) ]_vars

\* C7: the integration step advances a motor it finds enabled to
\* position + speed * step with the speed kept when that lies within
\* [MinPosition, MaxPosition], else puts it on the violated boundary with
\* speed 0; it changes no other motor, and skips a motor it finds disabled.
C7_IntegrationStep ==
  [][ /\ ( /\ worker.pc = "updWrite"
           /\ worker'.pc = "upd"
           /\ motors[worker.motor].IsEnabled )
         => LET m == worker.motor
                target == motors[m].Position + (motors[m].Speed * PosScale) \div 100
            IN /\ worker'.todo = worker.todo \ {m}
               /\ \A o \in MotorIds \ {m} : motors'[o] = motors[o]
               /\ motors'[m].IsEnabled
               /\ IF MinPosition <= target /\ target <= MaxPosition
                    THEN /\ motors'[m].Position = target
                         /\ motors'[m].Speed = motors[m].Speed
                    ELSE /\ motors'[m].Position =
                              (IF target < MinPosition THEN MinPosition
                               ELSE MaxPosition)
                         /\ motors'[m].Speed = 0
      /\ (worker.pc = "upd" /\ worker' # worker)
         => /\ motors' = motors
            /\ \A m \in worker.todo \ worker'.todo :
                 ~motors[m].IsEnabled /\ worker'.pc = "upd"
            /\ \A m \in worker.todo :
                 (worker'.pc = "updWrite" /\ worker'.motor = m)
                 => motors[m].IsEnabled
            /\ worker'.pc = "select" => worker.todo = {} ]_vars

\* an integration step has clamped an enabled motor onto MaxPosition
C7_Witness ==
  \E m \in MotorIds :
    /\ worker.pc = "upd"
    /\ m \notin worker.todo
    /\ motors[m].IsEnabled
    /\ motors[m].Position = MaxPosition
    /\ motors[m].Speed = 0

\* C8: a motor that is not enabled has speed 0, in every state.
C8_DisabledHasNoSpeed ==
  \A m \in MotorIds : ~motors[m].IsEnabled => motors[m].Speed = 0

(***************************************************************************)
(* Properties of the sensor hub                                            *)
(***************************************************************************)
\* C9: a snapshot of a category never has more than BufferCap values and is
\* exactly the last (up to BufferCap) values processed for that category,
\* in processing order.
C9_BufferIsRecentWindow ==
  \A c \in Categories :
    /\ sensors[c].len <= BufferCap
    /\ Len(View(GetSensorData(c))) <= BufferCap
    /\ View(GetSensorData(c)) = LastN(processed[c], BufferCap)

\* more than BufferCap touch readings have been processed
C9_Witness ==
  /\ Len(processed["touch"]) > BufferCap
  /\ sensors["touch"].len = BufferCap

\* this step is taken by the analyzeBehavior goroutine
OrchStep == orch'.pc # orch.pc

\* this step is the Hub's worker processing a reading
ProcessStep == dataChan # <<>> /\ dataChan' = Tail(dataChan)

\* C10: no step of the snapshot's holder changes the values stored in the
\* Hub's buffers, and no reading the Hub processes changes a snapshot that
\* was already returned.
C10_SnapshotIsCopy ==
  [][ /\ OrchStep
         => \A c \in Categories : Visible(sensors'[c]) = Visible(sensors[c])
      /\ ProcessStep
         => /\ View(orch.touch)' = View(orch.touch)
            /\ View(orch.pressure)' = View(orch.pressure)
            /\ View(orch.motion)' = View(orch.motion) ]_vars

(***************************************************************************)
(* Properties of Shutdown and of the Hub's queue                           *)
(***************************************************************************)
\* this step belongs to a Shutdown call made after Hub.Shutdown has returned
HubSecondShutdownStep == hubShut = "returned" /\ hubShut' # hubShut

\* C11: a second Shutdown call on the Hub completes without a crash and
\* changes neither the channels nor the queue nor the buffers.
C11_SecondShutdownIsNoOp ==
  [][ HubSecondShutdownStep
      => /\ ~panicked'
         /\ hubShut' = "returned"
         /\ <<hubDone, dataClosed, dataChan, sensors>>'
              = <<hubDone, dataClosed, dataChan, sensors>> ]_vars

\* this step is an AddSensorData call made after Hub.Shutdown has returned
LateIngestStep == hubShut = "returned" /\ ingested' = ingested + 1

\* C12: an AddSensorData call made after Hub.Shutdown has returned does not
\* crash, does not put its reading on the queue and changes no buffer.
C12_IngestAfterShutdownFails ==
  [][ LateIngestStep
      => /\ ~panicked'
         /\ dataChan' = dataChan
         /\ sensors' = sensors ]_vars

\* the i-th value one of the Hub's buffers holds
Held(c, i) == sensors[c].arr[sensors[c].off + i]

RECURSIVE HeldCount(_)
\* the number of values the buffers of the categories cs hold
HeldCount(cs) ==
  IF cs = {} THEN 0
  ELSE LET c == CHOOSE x \in cs : TRUE
       IN sensors[c].len + HeldCount(cs \ {c})

\* the values of every reading whose AddSensorData call has returned; the
\* calls returned in the order of these values
Returned == {QueuedValue(i) : i \in 1..DataChanCap} \cup 1..ingested

\* no reading is lost, doubled or reordered on its way into its buffer:
\* the queue and every buffer are in call order, a buffer holds only
\* readings that were called before those still queued for it, the
\* readings queued at the start are in the touch buffer or still queued,
\* and buffers and queue together hold every returned reading once
NoLoss ==
  /\ Len(dataChan) <= DataChanCap
  /\ \A i \in 1..(Len(dataChan) - 1) :
       dataChan[i].Value < dataChan[i + 1].Value
  /\ \A c \in Categories :
       /\ \A i \in 1..(sensors[c].len - 1) : Held(c, i) < Held(c, i + 1)
       /\ \A i \in 1..Len(dataChan) :
            (dataChan[i].Type = c /\ sensors[c].len > 0)
            => Held(c, sensors[c].len) < dataChan[i].Value
       /\ \A i \in 1..sensors[c].len :
            Held(c, i) <= QueuedValue(DataChanCap) => c = "touch"
  /\ UNION {{Held(c, i) : i \in 1..sensors[c].len} : c \in Categories}
       \cup {dataChan[i].Value : i \in 1..Len(dataChan)} = Returned
  /\ HeldCount(Categories) + Len(dataChan) = DataChanCap + ingested

\* the reading of value v has been appended to a buffer
Appended(v) ==
  \E c \in Categories : \E i \in 1..sensors[c].len : Held(c, i) = v

\* C13: while the Hub is running no AddSensorData call returns while the
\* queue holds DataChanCap readings, a full queue eventually has room again,
\* and every reading whose call returned is in its category's buffer or
\* still queued, once, in call order, and is eventually in the buffer.
C13_BackpressureWithoutLoss ==
  /\ []NoLoss
  /\ [][Len(dataChan) = DataChanCap => ingested' = ingested]_vars
  /\ (Len(dataChan) = DataChanCap) ~> (Len(dataChan) < DataChanCap)
  /\ \A v \in 1..MaxIngest : (ingested >= v) ~> Appended(v)

\* a reading submitted while the queue was full has reached its buffer
\* behind the readings queued before it
C13_Witness ==
  /\ ingested >= 1
  /\ Appended(1)
  /\ Appended(QueuedValue(DataChanCap))

\* C14: once Hub.Shutdown has returned no step changes the set of buffers
\* or the contents of a buffer.
C14_NoChangeAfterShutdown ==
  [][ hubShut = "returned"
      => /\ DOMAIN sensors' = DOMAIN sensors
         /\ \A c \in DOMAIN sensors :
              Visible(sensors'[c]) = Visible(sensors[c]) ]_vars

(***************************************************************************)
(* Properties of the behaviour analyzer                                    *)
(***************************************************************************)
\* this step is a tick of the analyzer that computed a pattern
TickStep == ticks' = ticks + 1

\* the newest pattern of a history
Newest(h) == h[Len(h)]

\* C15: a tick whose pattern has confidence >= Threshold sets the current
\* state to that pattern's type, a tick whose pattern has less leaves it
\* unchanged and still appends the pattern, no other step changes it, and
\* it is normal while no pattern so far had confidence >= Threshold.
C15_StateFollowsConfidentPatterns ==
  [][ /\ TickStep
         => LET pattern == analyzeBuffer(buffer)
            IN /\ Newest(behaviorPatterns') = pattern
               /\ pattern.Confidence.num * 4
                    >= 3 * pattern.Confidence.den * Unit
                    => currentState' = pattern.Type
               /\ pattern.Confidence.num * 4
                    < 3 * pattern.Confidence.den * Unit
                    => currentState' = currentState
      /\ ~TickStep => currentState' = currentState
      /\ (\A k \in 1..Len(computed') :
            computed'[k].Confidence.num * 4
              < 3 * computed'[k].Confidence.den * Unit)
         => currentState' = BehaviorNormal ]_vars

\* a confident aggressive pattern set the state and a later pattern below
\* the threshold, of another type, left it
C15_Witness ==
  /\ ticks = 2
  /\ currentState = BehaviorAggressive
  /\ ~Confident(Newest(computed))
  /\ Newest(computed).Type # BehaviorAggressive
  /\ Newest(behaviorPatterns) = Newest(computed)

\* C16: the type of the pattern a tick computes from the window means
\* (i, f) of intensity and frequency is aggressive if i > 0.8 and f > 0.8,
\* else passive if i < 0.2 and f < 0.2, else erratic if |i - f| > 0.5, else
\* normal.
C16_ClassificationByPriority ==
  [][ TickStep
      => LET n == Len(buffer)
             i == SumOf(buffer, "Intensity")
             f == SumOf(buffer, "Frequency")
             type == Newest(computed').Type
             agg == i * 10 > 8 * n * Unit /\ f * 10 > 8 * n * Unit
             pas == i * 10 < 2 * n * Unit /\ f * 10 < 2 * n * Unit
             err == Abs(i - f) * 10 > 5 * n * Unit
         IN /\ type \in BehaviorTypes
            /\ type = BehaviorAggressive <=> agg
            /\ type = BehaviorPassive <=> ~agg /\ pas
            /\ type = BehaviorErratic <=> ~agg /\ ~pas /\ err
            /\ type = BehaviorNormal <=> ~agg /\ ~pas /\ ~err ]_vars

\* a pattern was classified aggressive although its means are also more
\* than 0.5 apart, after one that was classified by a later rule
C16_Witness ==
  /\ ticks = 2
  /\ computed[1].Type # BehaviorAggressive
  /\ computed[2].Type = BehaviorAggressive
  /\ ApartBy(computed[2].Metrics.Intensity, computed[2].Metrics.Frequency, 50)

\* C17: the history never holds more than HistoryCap patterns and is exactly
\* the last (up to HistoryCap) patterns computed, whatever their confidence,
\* in the order they were computed.
C17_HistoryIsRecentPatterns ==
  /\ Len(behaviorPatterns) <= HistoryCap
  /\ behaviorPatterns = LastN(computed, HistoryCap)

\* more than HistoryCap patterns have been computed, the newest one below
\* the threshold
C17_Witness ==
  /\ Len(computed) > HistoryCap
  /\ Len(behaviorPatterns) = HistoryCap
  /\ ~Confident(Newest(computed))

(***************************************************************************)
(* Properties of the safety monitor                                        *)
(***************************************************************************)
\* C18: the level is at least SafetyWarning whenever more than 10 warnings
\* are recorded and at least SafetyCritical whenever more than 20 are.
C18_EscalationThresholds ==
  /\ Len(warnings) > 10 => currentLevel >= SafetyWarning
  /\ Len(warnings) > 20 => currentLevel >= SafetyCritical

\* the 21st warning has been recorded
C18_Witness == Len(warnings) = 21 /\ currentLevel = SafetyCritical

\* C19: no step lowers the safety level.
C19_LevelNeverDecreases == [][currentLevel' >= currentLevel]_vars

\* a warning was added and a check performed while the level was critical
C19_Witness ==
  /\ Len(warnings) = 22
  /\ currentLevel = SafetyCritical
  /\ lastCheck = MaxChecks

(***************************************************************************)
(* Properties of pattern replay                                            *)
(***************************************************************************)
\* C20: once Shutdown has set running to false no replay goroutine puts a
\* command on controlChan, and none panics by sending on the closed channel.
C20_ReplayStopsAtShutdown ==
  [][ ~running
      => /\ Len(controlChan') <= Len(controlChan)
         /\ \A r \in ReplayIds : replays'[r].pc # "panic" ]_vars

\* the k-th queued command was sent before Shutdown began: its replay has
\* sent a later command too, so it read running = true (line 198) after
\* this one was on the queue
SentWhileRunning(k) ==
  \E l \in 1..Len(controlChan) :
    /\ controlChan[l].Replay = controlChan[k].Replay
    /\ controlChan[l].Index > controlChan[k].Index

\* C21: every command that was put on controlChan before Shutdown was
\* invoked is taken and executed by the worker, so the worker has not left
\* its loop while such a command is still queued.
C21_QueuedCommandsExecuted ==
  worker.pc = "exited"
  => \A k \in 1..Len(controlChan) : ~SentWhileRunning(k)

(***************************************************************************)
(* Properties of the worker's scheduling and of the order of commands      *)
(***************************************************************************)
\* the indexes a command can have in a pattern
Indexes == UNION {DOMAIN cmds : cmds \in PatternPool}

\* the i-th command of replay r is on controlChan
Queued(r, i) ==
  \E k \in 1..Len(controlChan) :
    controlChan[k].Replay = r /\ controlChan[k].Index = i

LaunchStep(r) == replays[r].pc = "idle" /\ replays'[r].pc # "idle"

\* C23: ExecutePattern for a name that is not registered returns "pattern
\* not found", starts no replay and puts no command on the queue; for a
\* registered name it returns success and starts a replay of the commands
\* registered under that name at the time of the call, which a later
\* AddPattern does not change.
C23_ExecutePatternByName ==
  [][ /\ (epResult' = ErrPatternNotFound /\ epResult' # epResult)
         => /\ \E name \in PatternNames : name \notin DOMAIN patterns
            /\ replays' = replays
            /\ controlChan' = controlChan
      /\ (epResult' = ErrNone /\ epResult' # epResult)
         => \E r \in ReplayIds : LaunchStep(r)
      /\ \A r \in ReplayIds :
           /\ LaunchStep(r)
              => /\ epResult' = ErrNone
                 /\ controlChan' = controlChan
                 /\ replays'[r].pc = "check" /\ replays'[r].i = 1
                 /\ \E name \in PatternNames :
                      /\ name \in DOMAIN patterns
                      /\ replays'[r].cmds = patterns[name]
           /\ (replays[r].pc \in {"check", "send"}
               /\ replays'[r].pc \in {"check", "send"})
              => replays'[r].cmds = replays[r].cmds ]_vars

\* a call for a name that is not registered has returned the error: no
\* replay runs and the queue is empty
C23_Witness ==
  /\ epResult = ErrPatternNotFound
  /\ \A r \in ReplayIds : replays[r].pc = "idle"
  /\ controlChan = <<>>

\* the commands in flight are in pattern order: on the queue a replay's
\* commands stand by increasing index, all below the index the replay sends
\* next, and behind the command of that replay the worker is executing
InOrder ==
  /\ \A k \in 1..Len(controlChan), l \in 1..Len(controlChan) :
       (k < l /\ controlChan[k].Replay = controlChan[l].Replay)
       => controlChan[k].Index < controlChan[l].Index
  /\ \A k \in 1..Len(controlChan) :
       LET r == controlChan[k].Replay
       IN /\ r \in ReplayIds
          /\ replays[r].pc \in {"check", "send"}
             => controlChan[k].Index < replays[r].i
  /\ worker.pc = "execWrite"
     => \A k \in 1..Len(controlChan) :
          controlChan[k].Replay = worker.cmd.Replay
          => worker.cmd.Index < controlChan[k].Index

\* a replay's send puts the command at its current index at the tail of the
\* queue and moves to the next index, and ends the replay after the last
\* one; the queue changes only by such a send or by the worker taking its
\* head, which is the command the worker validates and executes next
InOrderStep ==
  /\ \A r \in ReplayIds :
       (replays[r].pc = "send" /\ replays'[r] # replays[r])
       => /\ controlChan' =
               Append(controlChan,
                      Tagged(replays[r].cmds[replays[r].i], r, replays[r].i))
          /\ replays'[r] =
               (IF replays[r].i = Len(replays[r].cmds) THEN DoneReplay
                ELSE [pc |-> "check", cmds |-> replays[r].cmds,
                      i |-> replays[r].i + 1])
  /\ \A r \in ReplayIds :
       (replays[r].pc = "check" /\ replays'[r] # replays[r])
       => /\ replays'[r] = [replays[r] EXCEPT !.pc = "send"]
          /\ controlChan' = controlChan
  /\ controlChan' # controlChan
     => \/ \E r \in ReplayIds : replays[r].pc = "send" /\ replays'[r] # replays[r]
        \/ /\ ReceiveStep
           /\ worker'.pc = "execWrite" => worker'.cmd = Head(controlChan)

SampleStep == inputChan # <<>> /\ inputChan' = Tail(inputChan)

\* the samples the worker has received since the window held PreWindow
\* samples, and those it has evicted
Taken == metricsSent - Len(inputChan)
Evicted == PreWindow + Taken - Len(buffer)

\* C26: the worker's window never holds more than 60 samples: receiving a
\* sample appends it and, when that makes 61, evicts the oldest, so the
\* window is the (up to) 60 most recent samples in order of arrival; the
\* means of the pattern a tick computes are taken over that window.
C26_WindowIsRecentSamples ==
  /\ [](Len(buffer) <= WindowCap)
  /\ [](\A k \in 1..Len(buffer) :
          k + Evicted <= PreWindow => buffer[k] = PreSample(k + Evicted))
  /\ [][ /\ SampleStep
            => buffer' = LastN(Append(buffer, Head(inputChan)), WindowCap)
         /\ TickStep
            => /\ buffer' = buffer
               /\ \A f \in {"Intensity", "Frequency", "Duration", "Consistency"} :
                    /\ Newest(computed').Metrics[f].num = SumOf(buffer, f)
                    /\ Newest(computed').Metrics[f].den = Len(buffer) ]_vars

\* two samples were evicted from a full window and a tick has computed a
\* pattern from the 60 that are left
C26_Witness ==
  /\ Len(buffer) = WindowCap
  /\ buffer[1] = PreSample(3)
  /\ ticks > 0
  /\ Newest(computed).Metrics.Intensity.den = WindowCap

\* C27: a tick appends exactly one pattern, computed from the window, when
\* the window is not empty, and nothing happens to the history or the state
\* while it is empty, so both stay as constructed until a sample has been
\* received; a window that holds a sample is never empty again, so every
\* later tick appends a pattern whether or not new samples arrived.
C27_OnePatternPerTick ==
  /\ [](buffer = <<>>
        => (behaviorPatterns = <<>> /\ currentState = BehaviorNormal))
  /\ [][ /\ TickStep
            => /\ buffer # <<>>
               /\ computed' = Append(computed, analyzeBuffer(buffer))
               /\ behaviorPatterns' =
                    KeepHistory(Append(behaviorPatterns, analyzeBuffer(buffer)))
         /\ ~TickStep
            => behaviorPatterns' = behaviorPatterns /\ currentState' = currentState
         /\ buffer # <<>> => buffer' # <<>> ]_vars
  /\ []((buffer # <<>> /\ ticks < MaxTicks) => ENABLED AnalyzerTick)

\* two ticks have each appended a pattern computed from the only sample
\* ever submitted
C27_Witness ==
  /\ metricsSent = 1
  /\ Len(buffer) = 1
  /\ ticks = 2
  /\ Len(behaviorPatterns) = 2
  /\ behaviorPatterns[1] = behaviorPatterns[2]

\* C30: the window holds only samples that were submitted through
\* AddMetrics, never the zero value of a closed queue, and once Shutdown
\* has returned neither the pattern history nor the current state changes.
C30_AnalyzerQuietAfterShutdown ==
  /\ [](\A k \in 1..Len(buffer) : buffer[k] # ZeroSample)
  /\ [][ anShut = "returned"
         => /\ behaviorPatterns' = behaviorPatterns
            /\ currentState' = currentState ]_vars

(***************************************************************************)
(* Properties of supervision and of the System's Shutdown                  *)
(***************************************************************************)
\* the analyzer reports aggressive or erratic behaviour to an active System
\* with no warning recorded yet
Alarming ==
  /\ currentState \in {BehaviorAggressive, BehaviorErratic}
  /\ isActive
  /\ warnings = <<>>

\* C25: whenever the analyzer's current state is aggressive or erratic
\* while the System is active, the monitor's periodic check eventually
\* records a warning.
C25_AlarmingStateIsWarned == Alarming ~> (warnings # <<>>)

\* this step is analyzeBehavior asking the Hub for a snapshot
OrchReadStep ==
  orch.pc \in {"active", "gotTouch", "gotPressure"} /\ orch'.pc # orch.pc

\* this step is analyzeBehavior calling AddMetrics
OrchAddMetricsStep == orch.pc = "addMetrics" /\ orch'.pc # orch.pc

\* C24: analyzeBehavior has stopped before System.Shutdown shuts its
\* consumers down: it calls AddMetrics on no Analyzer, and asks no Hub for
\* a snapshot, whose Shutdown has returned.
C24_ProducerStopsFirst ==
  [][ /\ OrchAddMetricsStep => anShut # "returned"
      /\ OrchReadStep => hubShut # "returned" ]_vars

\* this step is a task taking the Controller's lock in Controller.Shutdown
ShutdownLockStep == shut.pc \in {"idle", "returned"} /\ shut'.pc = "closeDone"

\* C29: no task takes one component's lock while it holds another
\* component's lock: the caller of System.Shutdown does not hold the
\* System's lock when it takes the Controller's lock.
C29_NoLockAcrossComponents ==
  [][ShutdownLockStep => sysMu # "shutdown"]_vars

====
